---- MODULE Spec2Model ----
(***************************************************************************)
(* Weather backend: the upsert store of WeatherService                     *)
(* (process_and_store_weather_data), its SQLAlchemy session, the date      *)
(* range and response validation of fetch_weather_data, the two queries    *)
(* (get_recent_weather_data, get_weather_data_by_location) and the request *)
(* handlers of routes/weather.py as far as their validation, status and    *)
(* JSON bodies go.                                                         *)
(*                                                                         *)
(* A WeatherData row is a record with the columns of models/weather.py.    *)
(* The database holds the committed rows (db); every worker owns a session *)
(* holding the rows it has inserted or updated since its last commit or    *)
(* rollback.  A query of a worker sees the committed rows overlaid with    *)
(* the rows of its own session (autoflush precedes every query), never the *)
(* uncommitted rows of another worker.                                     *)
(***************************************************************************)
EXTENDS Integers, Sequences, FiniteSets, TLC

\* ------------------------------------------------------------- bounds
MaxLen == 2          \* longest 'time' array of a fetched series
MaxCalls == 2        \* reconcile calls a worker makes in a sequential run
MaxConcLen == 1      \* longest 'time' array in a concurrent run
MaxDays == 2         \* most days a fetch is asked for

\* ------------------------------------------------------------- values
None == -1           \* a JSON null in a value array
Missing == -2        \* what an index past the end of a value array reads

Workers == {1, 2}

\* The strings the archive may deliver in hourly.time: the ISO form with
\* 'T', the same hours already written with a blank, and a string that is
\* no date.
TimeStrings ==
    {"2024-01-01T00:00", "2024-01-01 00:00", "2024-01-01T01:00", "n/a"}

Temperatures == {None, 11, 12}
Humidities == {None, 55}
\* <<latitude, longitude>>
Locations == {<<47, 8>>, <<48, 8>>}

\* timestamp_str.replace('T', ' ')
ReplaceT(s) ==
    CASE s = "2024-01-01T00:00" -> "2024-01-01 00:00"
      [] s = "2024-01-01T01:00" -> "2024-01-01 01:00"
      [] OTHER -> s

\* datetime.fromisoformat: the hour of 2024-01-01 the string names, or a
\* ValueError.
FromIsoformat(s) ==
    CASE s = "2024-01-01 00:00" -> [ok |-> TRUE, value |-> 0]
      [] s = "2024-01-01 01:00" -> [ok |-> TRUE, value |-> 1]
      [] OTHER -> [ok |-> FALSE, value |-> 0]

ParseTimestamp(timestamp_str) == FromIsoformat(ReplaceT(timestamp_str))

\* ------------------------------------------------------------- inputs
SeqsUpTo(S, n) == UNION {[1..k -> S] : k \in 0..n}

\* api_data['hourly'] with its three arrays; a value array may be shorter
\* than the time array.
HourlyData(n, times, temps, hums) ==
    {[time |-> t, temperature_2m |-> a, relative_humidity_2m |-> h] :
        t \in SeqsUpTo(times, n), a \in SeqsUpTo(temps, n),
        h \in SeqsUpTo(hums, n)}

\* What iteration k of the loop reads: timestamps[k], temperatures[k] and
\* humidities[k].
Item(hourly_data, k) ==
    [timestamp_str |-> hourly_data.time[k],
     temperature |-> IF k > Len(hourly_data.temperature_2m) THEN Missing
                     ELSE hourly_data.temperature_2m[k],
     humidity |-> IF k > Len(hourly_data.relative_humidity_2m) THEN Missing
                  ELSE hourly_data.relative_humidity_2m[k]]

AllItems ==
    [timestamp_str : TimeStrings, temperature : Temperatures \cup {Missing},
     humidity : Humidities \cup {Missing}]

\* A null among the values an iteration read.
HasNull(it) == it.temperature = None \/ it.humidity = None

\* The arguments of one process_and_store_weather_data call.
Calls(hourlies) ==
    {[api_data |-> d, latitude |-> l[1], longitude |-> l[2]] :
        d \in hourlies, l \in Locations}

NoData == [time |-> <<>>, temperature_2m |-> <<>>, relative_humidity_2m |-> <<>>]

NoCall == [api_data |-> NoData, latitude |-> 0, longitude |-> 0]

\* ------------------------------------------------------------- state
VARIABLES
    env,              \* the run: its workers, the calls each may make, what
                      \*   they pass, the rows it started with
    db,               \* committed weather_data rows
    nextId,           \* next primary key
    clock,            \* datetime.utcnow()
    session,          \* per worker: rows written and not yet committed
    pc,               \* per worker: "idle", "loop" (in the for loop and at
                      \*   the commit) or "done" (returning or raising)
    call,             \* per worker: len(timestamps), latitude, longitude
    i,                \* per worker: index of the for loop (1-based)
    nulls,            \* per worker: the last iteration read a null value
    weather_records,  \* per worker: ids of the records touched so far
    result,           \* per worker: outcome of the last call
    returned,         \* per worker: list the last call returned
    calls,            \* per worker: calls begun
    dbAtCall,         \* per worker: rows visible when the last call began
    written,          \* per worker: last values the call passed the null check
                      \*   with, per timestamp
    prevOk,           \* per worker: db as the call before left it, if that
                      \*   call succeeded
    fetched,          \* per worker: what fetch_weather_data has returned
    params,           \* per worker: the date range of the request of the
                      \*   last fetch, with the `days` and the today it was
                      \*   computed from
    outbound,         \* per worker: requests the last fetch has issued
    got,              \* per worker: the response the last fetch received
    query,            \* per worker: the query under way and its arguments
    weather_data,     \* per worker: the list the query has returned
    request,          \* per worker: the HTTP request being handled
    handler,          \* per worker: where the handler of the request is
    reply,            \* per worker: the response of the handler
    export            \* per worker: what the export of the request did:
                      \*   the temporary files it created and those it has
                      \*   not removed, the renderers it ran, the sections
                      \*   of the document it sends

httpVars == <<request, handler, reply, export>>

fetchVars == <<params, outbound, got>>

queryVars == <<query, weather_data>>

vars == <<env, db, nextId, clock, session, pc, call, i, nulls,
          weather_records, result, returned, calls, dbAtCall, written,
          prevOk, fetched, fetchVars, queryVars, httpVars>>

\* ------------------------------------------------------------- the store
WeatherData(id, timestamp, latitude, longitude, temperature_2m, relative_humidity_2m, created_at) ==
    [id |-> id, timestamp |-> timestamp, latitude |-> latitude,
     longitude |-> longitude, temperature_2m |-> temperature_2m,
     relative_humidity_2m |-> relative_humidity_2m,
     created_at |-> created_at]

Ids(rows) == {r.id : r \in rows}

\* Rows `written_rows` laid over `rows`: a written row replaces the row with
\* its id.
Overlay(rows, written_rows) ==
    {r \in rows : r.id \notin Ids(written_rows)} \cup written_rows

\* What a query of worker p reads.
ViewWithoutAutoflush(p) == db

View(p) == Overlay(db, session[p])

\* WeatherData.query.filter_by(timestamp=, latitude=, longitude=)
FilterByCreatedAt(rows, timestamp, latitude, longitude) ==
    {r \in rows : /\ r.created_at = timestamp
                  /\ r.latitude = latitude
                  /\ r.longitude = longitude}

FilterByTimestampOnly(rows, timestamp, latitude, longitude) ==
    {r \in rows : r.timestamp = timestamp}

FilterBy(rows, timestamp, latitude, longitude) ==
    {r \in rows : /\ r.timestamp = timestamp
                  /\ r.latitude = latitude
                  /\ r.longitude = longitude}

\* existing_record.temperature_2m = ...; existing_record.relative_humidity_2m = ...
UpdateHumidityOnly(existing_record, temperature_2m, relative_humidity_2m, now) ==
    [existing_record EXCEPT !.relative_humidity_2m = relative_humidity_2m]

UpdateTouchingCreatedAt(existing_record, temperature_2m, relative_humidity_2m, now) ==
    [existing_record EXCEPT !.temperature_2m = temperature_2m,
                            !.relative_humidity_2m = relative_humidity_2m,
                            !.created_at = now]

UpdateRecord(existing_record, temperature_2m, relative_humidity_2m, now) ==
    [existing_record EXCEPT !.temperature_2m = temperature_2m,
                            !.relative_humidity_2m = relative_humidity_2m]

\* `temperatures[i] is None or humidities[i] is None`, with the IndexError of
\* a value array that is too short; `or` does not evaluate its right side
\* when its left side is true.
NullCheckOfTemperatureOnly(it) ==
    IF it.temperature = Missing THEN "IndexError"
    ELSE IF it.temperature = None THEN "skip"
    ELSE IF it.humidity = Missing THEN "IndexError"
    ELSE "store"

NullCheck(it) ==
    IF it.temperature = Missing THEN "IndexError"
    ELSE IF it.temperature = None THEN "skip"
    ELSE IF it.humidity = Missing THEN "IndexError"
    ELSE IF it.humidity = None THEN "skip"
    ELSE "store"

\* weather_records.append(record)
AppendOnlyCreated(records, id, created) ==
    IF created THEN Append(records, id) ELSE records

AppendRecord(records, id, created) == Append(records, id)

Idle(p) == pc[p] = "idle"

Planned(p) == env.plan[p] # NoCall

\* The handler of /weather-report is about to call, or has called,
\* process_and_store_weather_data(api_data, lat, lon).
Storing(p) == handler[p] = "store"

\* The arguments worker p may pass: what its handler has fetched and was
\* asked for, what the run has planned, or anything.
Arguments(p) ==
    IF Storing(p)
    THEN {[n |-> Len(fetched[p].data.time), latitude |-> request[p].lat,
           longitude |-> request[p].lon]}
    ELSE IF Planned(p)
    THEN {[n |-> Len(env.plan[p].api_data.time),
           latitude |-> env.plan[p].latitude,
           longitude |-> env.plan[p].longitude]}
    ELSE {[n |-> n, latitude |-> l[1], longitude |-> l[2]] :
             n \in 0..MaxLen, l \in Locations}

\* What the arrays may hold at index k.
Items(p, k) ==
    IF Storing(p) THEN {Item(fetched[p].data, k)}
    ELSE IF Planned(p) THEN {Item(env.plan[p].api_data, k)}
    ELSE AllItems

\* The values of `w` with those of timestamp replaced.
Record(w, timestamp, temperature_2m, relative_humidity_2m) ==
    {x \in w : x.timestamp # timestamp} \cup
    {[timestamp |-> timestamp, temperature_2m |-> temperature_2m,
      relative_humidity_2m |-> relative_humidity_2m]}

\* ------------------------------------------------------------- requests
\* hours=... of /weather-data and the exports: its default and its maximum.
DefaultHours == 48
MaxHours == 168
\* weather_records[:5]
SampleSize == 5

\* What request.args.get gives for lat, lon and hours: None for a parameter
\* that is absent (or, for lat and lon, is no number), else its value.
RequestLats == {None, -91, -90, 47, 48, 91}
RequestLons == {None, -181, 8, 180, 181}
RequestHours == {None, 0, 1, DefaultHours, MaxHours, MaxHours + 1}

NoRequest == [endpoint |-> "none", lat |-> None, lon |-> None, hours |-> None]

\* A response: its status and the fields of its body; keys are the keys of
\* the JSON object (none for a file), location_filter is empty for null.
NoReply ==
    [status |-> 0, error |-> "", records_count |-> 0, start |-> "null",
     end |-> "null", data |-> <<>>, hours_requested |-> 0,
     location_filter |-> {}, keys |-> {}]

\* request.args.get("hours", type=int, default=48)
ArgsGetHoursDefaultingTo24(hours) == IF hours = None THEN 24 ELSE hours

ArgsGetHours(hours) == IF hours = None THEN DefaultHours ELSE hours

\* The checks of get_weather_report on lat and lon: "ok" or the error.
ValidateReportLatitudeOnly(lat, lon) ==
    IF lat = None \/ lon = None THEN "Missing required parameters"
    ELSE IF ~(-90 <= lat /\ lat <= 90) THEN "Invalid latitude"
    ELSE "ok"

ValidateReport(lat, lon) ==
    IF lat = None \/ lon = None THEN "Missing required parameters"
    ELSE IF ~(-90 <= lat /\ lat <= 90) THEN "Invalid latitude"
    ELSE IF ~(-180 <= lon /\ lon <= 180) THEN "Invalid longitude"
    ELSE "ok"

\* The checks of get_weather_data, export_excel and export_pdf on hours, lat
\* and lon: "ok" or the error.  The coordinates are looked at only when both
\* are given.
ValidateDataHoursBelowZero(lat, lon, hours) ==
    IF hours < 0 \/ hours > MaxHours THEN "Invalid hours parameter"
    ELSE IF lat # None /\ lon # None
            /\ (~(-90 <= lat /\ lat <= 90) \/ ~(-180 <= lon /\ lon <= 180))
    THEN "Invalid coordinates"
    ELSE "ok"

ValidateData(lat, lon, hours) ==
    IF hours <= 0 \/ hours > MaxHours THEN "Invalid hours parameter"
    ELSE IF lat # None /\ lon # None
            /\ (~(-90 <= lat /\ lat <= 90) \/ ~(-180 <= lon /\ lon <= 180))
    THEN "Invalid coordinates"
    ELSE "ok"

\* datetime.isoformat() of an hour of 2024-01-01 (hours 0 to 9).
Isoformat(hour) == "2024-01-01T0" \o ToString(hour) \o ":00:00"

\* WeatherData.to_dict()
ToDict(record) ==
    [id |-> record.id, timestamp |-> Isoformat(record.timestamp),
     latitude |-> record.latitude, longitude |-> record.longitude,
     temperature_2m |-> record.temperature_2m,
     relative_humidity_2m |-> record.relative_humidity_2m,
     created_at |-> Isoformat(record.created_at)]

\* weather_records[:n]
AllOf(records, n) == records

FirstOf(records, n) ==
    SubSeq(records, 1, IF Len(records) < n THEN Len(records) ELSE n)

\* jsonify({"error": ..., "message": ...}), status
Error(status, error) ==
    [NoReply EXCEPT !.status = status, !.error = error,
                    !.keys = {"error", "message"}]

\* ------------------------------------------------------------- queries
\* hours a query looks back; the clock counts hours from 2024-01-01T00:00,
\* the hour the timestamps count from.
HoursBack == {0, 1, 2}

\* datetime.utcnow() - timedelta(hours=hours)
CutoffTime(now, hours) == now - hours

\* WeatherData.timestamp >= cutoff_time
AfterCutoff(rows, cutoff_time) == {r \in rows : r.timestamp > cutoff_time}

NotBeforeCutoff(rows, cutoff_time) ==
    {r \in rows : r.timestamp >= cutoff_time}

\* WeatherData.latitude == latitude, WeatherData.longitude == longitude
AtSwapped(rows, latitude, longitude) ==
    {r \in rows : r.latitude = longitude /\ r.longitude = latitude}

At(rows, latitude, longitude) ==
    {r \in rows : r.latitude = latitude /\ r.longitude = longitude}

\* .order_by(WeatherData.timestamp.asc()).all(): the lists the database may
\* return, the rows of the least timestamp first; rows of one timestamp come
\* in any order.
RECURSIVE OrderByIdAsc(_)
OrderByIdAsc(rows) ==
    IF rows = {} THEN {<<>>}
    ELSE UNION {{<<r>> \o s : s \in OrderByIdAsc(rows \ {r})} :
                  r \in {x \in rows : \A y \in rows : x.id <= y.id}}

RECURSIVE OrderByTimestampAsc(_)
OrderByTimestampAsc(rows) ==
    IF rows = {} THEN {<<>>}
    ELSE UNION {{<<r>> \o s : s \in OrderByTimestampAsc(rows \ {r})} :
                  r \in {x \in rows :
                           \A y \in rows : x.timestamp <= y.timestamp}}

\* get_recent_weather_data(hours), on the rows the session reads at `now`.
GetRecentWeatherData(rows, now, hours) ==
    OrderByTimestampAsc(NotBeforeCutoff(rows, CutoffTime(now, hours)))

\* get_weather_data_by_location(latitude, longitude, hours)
GetWeatherDataByLocation(rows, latitude, longitude, now, hours) ==
    OrderByTimestampAsc(
        NotBeforeCutoff(At(rows, latitude, longitude),
                        CutoffTime(now, hours)))

NoQuery == [kind |-> "none", latitude |-> 0, longitude |-> 0, hours |-> 0]

\* The queries a caller of the service may make.
Queries ==
    {[kind |-> "recent", latitude |-> 0, longitude |-> 0, hours |-> h] :
        h \in HoursBack}
    \cup {[kind |-> "byLocation", latitude |-> l[1], longitude |-> l[2],
           hours |-> h] : l \in Locations, h \in HoursBack}

\* The lists query q may return on `rows` at `now`.
Answers(rows, q, now) ==
    IF q.kind = "recent" THEN GetRecentWeatherData(rows, now, q.hours)
    ELSE GetWeatherDataByLocation(rows, q.latitude, q.longitude, now,
                                  q.hours)

\* ------------------------------------------------------------- fetch
Fields == {"time", "temperature_2m", "relative_humidity_2m"}

\* What requests.get and response.json() may deliver: a transport failure
\* (also a bad status, raise_for_status), or a JSON object with or without
\* 'hourly', whose 'hourly' holds some of the three fields.
Responses ==
    [transport : {"ok", "RequestException"},
     has_hourly : BOOLEAN,
     fields : SUBSET Fields,
     hourly : HourlyData(MaxLen, {"2024-01-01T00:00", "2024-01-01T01:00"},
                         {None, 11}, {None, 55})]

NotFetched == [status |-> "none", data |-> NoData]

NoResponse ==
    [transport |-> "none", has_hourly |-> FALSE, fields |-> {},
     hourly |-> NoData]

\* datetime.now().date() as a day number (date.toordinal()): 2024-01-01 and
\* the day after.
Todays == {738886, 738887}

Days == 0..MaxDays

\* end_date and start_date of the request; a date minus timedelta(days=k) is
\* the date k days earlier.
DateRangeEndingToday(today, days) ==
    [days |-> days, today |-> today, end_date |-> today,
     start_date |-> today - (days - 1)]

DateRange(today, days) ==
    [days |-> days, today |-> today, end_date |-> today - 1,
     start_date |-> (today - 1) - (days - 1)]

NoParams == [days |-> 0, today |-> 0, end_date |-> 0, start_date |-> 0]

\* fetch_weather_data, from the response on: what it returns or raises.
FetchAcceptingTimeAlone(response) ==
    IF response.transport # "ok"
    THEN [status |-> "RequestException", data |-> NoData]
    ELSE IF ~response.has_hourly
    THEN [status |-> "ValueError", data |-> NoData]
    ELSE IF "time" \notin response.fields
    THEN [status |-> "ValueError", data |-> NoData]
    ELSE [status |-> "ok", data |-> response.hourly]

FetchWeatherData(response) ==
    IF response.transport # "ok"
    THEN [status |-> "RequestException", data |-> NoData]
    ELSE IF ~response.has_hourly
    THEN [status |-> "ValueError", data |-> NoData]
    ELSE IF \E field \in Fields : field \notin response.fields
    THEN [status |-> "ValueError", data |-> NoData]
    ELSE [status |-> "ok", data |-> response.hourly]

\* ------------------------------------------------------------- actions
\* fetch_weather_data(latitude, longitude, days) is called and returns or
\* raises: it computes the date range, issues its one requests.get, which
\* gets one of `responses`, and validates the response.
FetchWeatherDataCall(p, days, responses) ==
    /\ p \in env.workers
    /\ Idle(p)
    /\ fetched[p] = NotFetched
    /\ \E today \in Todays, r \in responses :
          /\ params' = [params EXCEPT ![p] = DateRange(today, days)]
          /\ got' = [got EXCEPT ![p] = r]
          /\ fetched' = [fetched EXCEPT ![p] = FetchWeatherData(r)]
    /\ outbound' = [outbound EXCEPT ![p] = @ + 1]
    /\ UNCHANGED <<env, db, nextId, clock, session, pc, call, i, nulls,
                   weather_records, result, returned, calls, dbAtCall,
                   written, prevOk>>

\* The service's fetch used directly, for any number of days.
Fetch(p) == \E days \in Days : FetchWeatherDataCall(p, days, Responses)

\* The caller is done with what fetch gave it.
Discard(p) ==
    /\ fetched[p] # NotFetched
    /\ fetched' = [fetched EXCEPT ![p] = NotFetched]
    /\ params' = [params EXCEPT ![p] = NoParams]
    /\ got' = [got EXCEPT ![p] = NoResponse]
    /\ outbound' = [outbound EXCEPT ![p] = 0]
    /\ UNCHANGED <<env, db, nextId, clock, session, pc, call, i, nulls,
                   weather_records, result, returned, calls, dbAtCall,
                   written, prevOk>>

\* process_and_store_weather_data is entered.  Time has passed since the
\* call before.
Begin(p) ==
    /\ p \in env.workers
    /\ Idle(p)
    /\ calls[p] < env.budget
    /\ \E c \in Arguments(p) : call' = [call EXCEPT ![p] = c]
    /\ pc' = [pc EXCEPT ![p] = "loop"]
    /\ i' = [i EXCEPT ![p] = 1]
    /\ nulls' = [nulls EXCEPT ![p] = FALSE]
    /\ weather_records' = [weather_records EXCEPT ![p] = <<>>]
    /\ result' = [result EXCEPT ![p] = "running"]
    /\ returned' = [returned EXCEPT ![p] = <<>>]
    /\ calls' = [calls EXCEPT ![p] = @ + 1]
    /\ dbAtCall' = [dbAtCall EXCEPT ![p] = View(p)]
    /\ written' = [written EXCEPT ![p] = {}]
    /\ clock' = clock + 1
    /\ UNCHANGED <<fetched, env, db, nextId, session, prevOk>>

\* An exception leaves the function from inside the for loop: no rollback.
Raise(p, exception) ==
    /\ pc' = [pc EXCEPT ![p] = "done"]
    /\ result' = [result EXCEPT ![p] = exception]
    /\ UNCHANGED <<fetched, env, db, nextId, clock, session, call, i,
                   weather_records, returned, calls, dbAtCall, written,
                   prevOk>>

\* `continue`
Continue(p) ==
    /\ i' = [i EXCEPT ![p] = @ + 1]
    /\ UNCHANGED <<fetched, env, db, nextId, clock, session, pc, call,
                   weather_records, result, returned, calls, dbAtCall,
                   written, prevOk>>

\* The lookup found existing_record: update it in place.
Update(p, existing_record, temperature_2m, relative_humidity_2m) ==
    /\ session' = [session EXCEPT ![p] =
          Overlay(@, {UpdateRecord(existing_record, temperature_2m,
                                   relative_humidity_2m, clock)})]
    /\ weather_records' = [weather_records EXCEPT ![p] =
          AppendRecord(@, existing_record.id, FALSE)]
    /\ written' = [written EXCEPT ![p] =
          Record(@, existing_record.timestamp, temperature_2m,
                 relative_humidity_2m)]
    /\ i' = [i EXCEPT ![p] = @ + 1]
    /\ UNCHANGED <<fetched, env, db, nextId, clock, pc, call, result, returned,
                   calls, dbAtCall, prevOk>>

\* The lookup found nothing: db.session.add of a new record.  The INSERT of
\* the flush, which assigns id and created_at, is taken together with add.
Insert(p, timestamp, temperature_2m, relative_humidity_2m) ==
    /\ session' = [session EXCEPT ![p] = @ \cup
          {WeatherData(nextId, timestamp, call[p].latitude,
                       call[p].longitude, temperature_2m,
                       relative_humidity_2m, clock)}]
    /\ nextId' = nextId + 1
    /\ weather_records' = [weather_records EXCEPT ![p] =
          AppendRecord(@, nextId, TRUE)]
    /\ written' = [written EXCEPT ![p] =
          Record(@, timestamp, temperature_2m, relative_humidity_2m)]
    /\ i' = [i EXCEPT ![p] = @ + 1]
    /\ UNCHANGED <<fetched, env, db, clock, pc, call, result, returned, calls,
                   dbAtCall, prevOk>>

\* One iteration of `for i, timestamp_str in enumerate(timestamps)`.
Step(p) ==
    /\ pc[p] = "loop"
    /\ i[p] <= call[p].n
    /\ \E it \in Items(p, i[p]) :
          LET timestamp == ParseTimestamp(it.timestamp_str)
              found == FilterBy(View(p), timestamp.value, call[p].latitude,
                                call[p].longitude)
          IN  /\ nulls' = [nulls EXCEPT ![p] = HasNull(it)]
              /\ IF ~timestamp.ok THEN Raise(p, "ValueError")
                 ELSE IF NullCheck(it) = "IndexError"
                      THEN Raise(p, "IndexError")
                 ELSE IF NullCheck(it) = "skip" THEN Continue(p)
                 ELSE IF found = {}
                      THEN Insert(p, timestamp.value, it.temperature,
                                  it.humidity)
                      ELSE \E existing_record \in found :
                              Update(p, existing_record, it.temperature,
                                     it.humidity)

LoopDone(p) == pc[p] = "loop" /\ i[p] > call[p].n

Resolve(rows, ids) ==
    [k \in 1..Len(ids) |-> CHOOSE r \in rows : r.id = ids[k]]

\* db.session.commit() succeeds; return weather_records.
Commit(p) ==
    /\ LoopDone(p)
    /\ db' = Overlay(db, session[p])
    /\ session' = [session EXCEPT ![p] = {}]
    /\ returned' = [returned EXCEPT ![p] =
                      Resolve(Overlay(db, session[p]), weather_records[p])]
    /\ result' = [result EXCEPT ![p] = "ok"]
    /\ pc' = [pc EXCEPT ![p] = "done"]
    /\ UNCHANGED <<fetched, env, nextId, clock, call, i, nulls, weather_records,
                   calls, dbAtCall, written, prevOk>>

\* db.session.commit() raises: rollback, then
\* Exception("Failed to store weather data: ...").
CommitFails(p) ==
    /\ LoopDone(p)
    /\ session' = [session EXCEPT ![p] = {}]
    /\ result' = [result EXCEPT ![p] = "StorageError"]
    /\ pc' = [pc EXCEPT ![p] = "done"]
    /\ UNCHANGED <<fetched, env, db, nextId, clock, call, i, nulls, weather_records,
                   returned, calls, dbAtCall, written, prevOk>>

NoArguments == [n |-> 0, latitude |-> 0, longitude |-> 0]

\* The call is over: its result has reached the caller and its locals are
\* gone.
Return(p) ==
    /\ pc[p] = "done"
    /\ pc' = [pc EXCEPT ![p] = "idle"]
    /\ prevOk' = [prevOk EXCEPT
                    ![p] = IF result[p] = "ok" THEN {db} ELSE {}]
    /\ call' = [call EXCEPT ![p] = NoArguments]
    /\ i' = [i EXCEPT ![p] = 1]
    /\ nulls' = [nulls EXCEPT ![p] = FALSE]
    /\ weather_records' = [weather_records EXCEPT ![p] = <<>>]
    /\ result' = [result EXCEPT ![p] = "none"]
    /\ returned' = [returned EXCEPT ![p] = <<>>]
    /\ dbAtCall' = [dbAtCall EXCEPT ![p] = {}]
    /\ written' = [written EXCEPT ![p] = {}]
    /\ UNCHANGED <<fetched, env, db, nextId, clock, session, calls>>

\* The application context ends: Flask-SQLAlchemy removes the session, which
\* rolls back what was not committed.
Teardown(p) ==
    /\ Idle(p)
    /\ session[p] # {}
    /\ session' = [session EXCEPT ![p] = {}]
    /\ UNCHANGED <<fetched, env, db, nextId, clock, pc, call, i, nulls,
                   weather_records, result, returned, calls, dbAtCall,
                   written, prevOk>>

\* The caller of the service (as test_api.py is) makes a query in its
\* session; the query flushes the session first.
Query(p) ==
    /\ p \in env.workers
    /\ Idle(p)
    /\ query[p] = NoQuery
    /\ \E q \in Queries :
          /\ query' = [query EXCEPT ![p] = q]
          /\ \E answer \in Answers(View(p), q, clock) :
                weather_data' = [weather_data EXCEPT ![p] = answer]
    /\ UNCHANGED <<fetched, env, db, nextId, clock, session, pc, call, i,
                   nulls, weather_records, result, returned, calls, dbAtCall,
                   written, prevOk>>

\* The caller is done with the list.
QueryDone(p) ==
    /\ query[p] # NoQuery
    /\ query' = [query EXCEPT ![p] = NoQuery]
    /\ weather_data' = [weather_data EXCEPT ![p] = <<>>]
    /\ UNCHANGED <<fetched, env, db, nextId, clock, session, pc, call, i,
                   nulls, weather_records, result, returned, calls, dbAtCall,
                   written, prevOk>>

\* What the reconcile steps leave alone.
aside == <<fetchVars, queryVars, httpVars>>

\* What the reconcile steps may change.
storeVars ==
    <<env, db, nextId, clock, session, pc, call, i, nulls, weather_records,
      result, returned, calls, dbAtCall, written, prevOk>>

\* ------------------------------------------------------------- handlers
\* days=2 of the fetch of get_weather_report
ReportDays == 2

\* The requests for /weather-report: any lat and lon, with or without an
\* hours the handler does not read; or the coordinates the run has planned.
ReportRequests(p) ==
    IF Planned(p)
    THEN {[endpoint |-> "/weather-report", lat |-> env.plan[p].latitude,
           lon |-> env.plan[p].longitude, hours |-> None]}
    ELSE {[endpoint |-> "/weather-report", lat |-> a, lon |-> o,
           hours |-> h] :
             a \in RequestLats, o \in RequestLons, h \in {None, 0}}

\* The responses the fetch of a handler may get: the series the run has
\* planned, or any response; a response the fetch fails on is taken with an
\* empty 'hourly', which such a fetch does not read.
HandlerResponses(p) ==
    IF Planned(p)
    THEN {[transport |-> "ok", has_hourly |-> TRUE, fields |-> Fields,
           hourly |-> env.plan[p].api_data]}
    ELSE {r \in Responses :
             FetchWeatherData(r).status # "ok" => r.hourly = NoData}

\* The 200 body of get_weather_report.
WeatherReport(records) ==
    [status |-> 200, error |-> "", records_count |-> Len(records),
     start |-> IF records # <<>> THEN Isoformat(records[1].timestamp)
               ELSE "null",
     end |-> IF records # <<>>
             THEN Isoformat(records[Len(records)].timestamp)
             ELSE "null",
     data |-> [k \in 1..Len(FirstOf(records, SampleSize)) |->
                 ToDict(FirstOf(records, SampleSize)[k])],
     hours_requested |-> 0, location_filter |-> {},
     keys |-> {"status", "message", "location", "records_count",
               "data_range", "sample_data"}]

\* The 500 of get_weather_report for a fetch that raised and for a
\* process_and_store_weather_data that raised.
FetchFailure == Error(500, "API fetch failed")

StorageFailureAsFetchFailure == Error(500, "API fetch failed")

StorageFailure == Error(500, "Database storage failed")

\* get_weather_report reads lat and lon and validates them: a 400, or on to
\* the fetch.
GetWeatherReport(p) ==
    /\ p \in env.workers
    /\ Idle(p)
    /\ handler[p] = "none"
    /\ Planned(p) => calls[p] < env.budget
    /\ \E r \in ReportRequests(p) :
          LET checked == ValidateReport(r.lat, r.lon)
          IN  /\ checked = "ok" => calls[p] < env.budget
              /\ request' = [request EXCEPT ![p] = r]
              /\ IF checked = "ok"
                 THEN /\ handler' = [handler EXCEPT ![p] = "fetch"]
                      /\ UNCHANGED reply
                 ELSE /\ handler' = [handler EXCEPT ![p] = "responded"]
                      /\ reply' = [reply EXCEPT ![p] = Error(400, checked)]
    /\ UNCHANGED <<storeVars, fetched, fetchVars, queryVars, export>>

\* get_weather_report calls fetch_weather_data(lat, lon, days=2): a 500 when
\* it raises, else on to the store.
ReportFetch(p) ==
    /\ handler[p] = "fetch"
    /\ FetchWeatherDataCall(p, ReportDays, HandlerResponses(p))
    /\ IF fetched'[p].status = "ok"
       THEN /\ handler' = [handler EXCEPT ![p] = "store"]
            /\ UNCHANGED reply
       ELSE /\ handler' = [handler EXCEPT ![p] = "responded"]
            /\ reply' = [reply EXCEPT ![p] = FetchFailure]
    /\ UNCHANGED <<request, queryVars, export>>

\* get_weather_report calls process_and_store_weather_data(api_data, lat,
\* lon).
ReportStore(p) ==
    /\ Storing(p)
    /\ Begin(p)
    /\ UNCHANGED aside

\* process_and_store_weather_data has returned or raised: the 200 body, or
\* a 500.
ReportStored(p) ==
    /\ Storing(p)
    /\ pc[p] = "done"
    /\ handler' = [handler EXCEPT ![p] = "responded"]
    /\ reply' = [reply EXCEPT ![p] =
          IF result[p] = "ok" THEN WeatherReport(returned[p])
          ELSE StorageFailure]
    /\ UNCHANGED <<storeVars, fetched, fetchVars, queryVars, request,
                   export>>

\* The handler returns its response: its locals are gone.
HandlerReturn(p) ==
    /\ handler[p] = "responded"
    /\ Return(p)
    /\ UNCHANGED aside

\* The requests for /weather-data and the exports.
DataRequests(endpoint) ==
    {[endpoint |-> endpoint, lat |-> a, lon |-> o, hours |-> h] :
        a \in RequestLats, o \in RequestLons, h \in RequestHours}

\* The lists the query of /weather-data or an export may return: by
\* location when lat and lon are both given, else of any location.
Selected(rows, now, r) ==
    IF r.lat # None /\ r.lon # None
    THEN GetWeatherDataByLocation(rows, r.lat, r.lon, now,
                                  ArgsGetHours(r.hours))
    ELSE GetRecentWeatherData(rows, now, ArgsGetHours(r.hours))

\* The 200 body of get_weather_data.
WeatherDataBody(records, hours) ==
    [NoReply EXCEPT !.status = 200, !.records_count = Len(records),
                    !.data = [k \in 1..Len(records) |-> ToDict(records[k])],
                    !.hours_requested = hours,
                    !.keys = {"status", "records_count", "hours_requested",
                              "location_filter", "data"}]

\* "location_filter": {"latitude": lat, "longitude": lon} if lat is not
\* None and lon is not None else None
LocationFilterOfEither(lat, lon) ==
    IF lat # None \/ lon # None THEN {<<lat, lon>>} ELSE {}

LocationFilter(lat, lon) ==
    IF lat # None /\ lon # None THEN {<<lat, lon>>} ELSE {}

\* The 500 of the outermost except of get_weather_report and
\* get_weather_data.
Unhandled == [NoReply EXCEPT !.status = 500]

InternalError == Error(500, "Internal server error")

\* The responses get_weather_data may give to request r: a 400, the 200
\* body, or the 500 of a query that raised.
GetWeatherDataReplies(rows, now, r) ==
    LET hours == ArgsGetHours(r.hours)
        checked == ValidateData(r.lat, r.lon, hours)
    IN  IF checked # "ok" THEN {Error(400, checked)}
        ELSE {[WeatherDataBody(records, hours) EXCEPT
                  !.location_filter = LocationFilter(r.lat, r.lon)] :
                 records \in Selected(rows, now, r)}
             \cup {InternalError}

\* The file an export sends.
File(records, hours) ==
    [NoReply EXCEPT !.status = 200, !.records_count = Len(records),
                    !.hours_requested = hours]

\* What an export has done: the length of the list its query returned (None
\* when no query returned), the temporary files it created and those of them that are left, how each PDF
\* renderer ended ("none" when it was not run), what reportlab and its
\* chart image did in the fallback, the sections of the document it sends
\* and the file it passes to send_file.
NoExport ==
    [found |-> None, created |-> {}, left |-> {}, primary |-> "none",
     fallback |-> "none", reportlab |-> "none", image |-> "none",
     document |-> {}, sent |-> "none"]

\* The 500 of the outermost except of export_excel and of export_pdf, and
\* the 500 of export_pdf when generate_pdf_with_reportlab raised.
ExcelFailure == Error(500, "Excel export failed")

PdfFailure == Error(500, "PDF export failed")

BothFailed ==
    [Error(500, "PDF export failed") EXCEPT
        !.keys = {"error", "message", "details"}]

\* os.unlink(name) on the temporary files that exist.
Unlink(files, name) == files \ {name}

\* What the libraries let an export do.  Excel: the workbook is built and
\* saved, or building it raises (no temporary file yet), or wb.save raises.
ExcelOutcomes == {"ok", "workbook raises", "save raises"}

\* PDF: generate_weather_chart returns or raises; WeasyPrint writes the PDF,
\* cannot be imported, or raises; reportlab writes the PDF, cannot be
\* imported, or raises in c.save(); the chart is drawn, cannot be decoded,
\* or is decoded and cannot be placed by drawImage.
PdfOutcomes ==
    [chart : {"ok", "raises"}, primary : {"ok", "unavailable", "raises"},
     reportlab : {"ok", "unavailable", "raises"},
     image : {"ok", "undecodable", "unplaceable"}]

\* The sections of the report.
Sections == {"header", "metadata", "chart", "statistics", "footer"}

\* export_excel from the workbook on: the temporary file, wb.save,
\* send_file, and the finally that unlinks temp_file.name.
ExcelFile(records, hours, o) ==
    LET found == [NoExport EXCEPT !.found = Len(records)]
        saved == [found EXCEPT !.created = {"export.xlsx"},
                               !.left = Unlink({"export.xlsx"}, "export.xlsx")]
    IN  IF o = "workbook raises"
        THEN [reply |-> ExcelFailure, export |-> found]
        ELSE IF o = "save raises"
        THEN [reply |-> ExcelFailure, export |-> saved]
        ELSE [reply |-> File(records, hours),
              export |-> [saved EXCEPT !.document = {"sheet"},
                                       !.sent = "export.xlsx"]]

\* generate_pdf_with_reportlab: whether it raised, the temporary files it
\* created, those it left, and the sections it drew.  A chart that cannot
\* be decoded or placed is passed over.
GeneratePdfStoppingAtChart(reportlab, image) ==
    IF reportlab = "unavailable"
    THEN [raised |-> TRUE, created |-> {}, left |-> {}, document |-> {}]
    ELSE [raised |-> reportlab = "raises" \/ image # "ok",
          created |-> {"reportlab.pdf"}
                      \cup (IF image = "undecodable" THEN {}
                            ELSE {"chart.png"}),
          left |-> {"reportlab.pdf"}
                   \cup (IF image = "unplaceable" THEN {"chart.png"} ELSE {}),
          document |-> IF reportlab = "raises" \/ image # "ok" THEN {}
                       ELSE Sections]

GeneratePdfWithReportlab(reportlab, image) ==
    IF reportlab = "unavailable"
    THEN [raised |-> TRUE, created |-> {}, left |-> {}, document |-> {}]
    ELSE [raised |-> reportlab = "raises",
          created |-> {"reportlab.pdf"}
                      \cup (IF image = "undecodable" THEN {}
                            ELSE {"chart.png"}),
          left |-> {"reportlab.pdf"}
                   \cup (IF image = "unplaceable" THEN {"chart.png"} ELSE {}),
          document |-> IF reportlab = "raises" THEN {}
                       ELSE IF image = "ok" THEN Sections
                       ELSE Sections \ {"chart"}]

\* The `except Exception:` after the primary renderer catches what the try
\* raised: the RuntimeError of a WeasyPrint that is not there, or whatever
\* write_pdf raised.
CatchesUnavailableOnly(primary) == primary = "unavailable"

Catches(primary) == primary \in {"unavailable", "raises"}

\* The fallback is the body of that except: it runs when the try raised.
RunsFallbackAlways(primary) == TRUE

RunsFallback(primary) == primary # "ok"

\* export_pdf from the chart on: the chart and the HTML, the temporary
\* file, WeasyPrint, reportlab when WeasyPrint is missing or raised,
\* send_file, and the finally that unlinks temp_file.name (the file
\* reportlab returned, once the fallback has replaced temp_file).
PdfFile(records, hours, o) ==
    LET found == [NoExport EXCEPT !.found = Len(records)]
        g == GeneratePdfWithReportlab(o.reportlab, o.image)
        tried == [found EXCEPT !.primary = o.primary,
                               !.created = {"weasyprint.pdf"}]
        fallen == [tried EXCEPT
                      !.reportlab = o.reportlab,
                      !.image = IF o.reportlab = "unavailable" THEN "none"
                                ELSE o.image]
    IN  IF o.chart = "raises" THEN [reply |-> PdfFailure, export |-> found]
        ELSE IF o.primary # "ok" /\ ~Catches(o.primary)
        THEN [reply |-> PdfFailure,
              export |-> [tried EXCEPT
                  !.left = Unlink({"weasyprint.pdf"}, "weasyprint.pdf")]]
        ELSE IF ~RunsFallback(o.primary)
        THEN [reply |-> File(records, hours),
              export |-> [tried EXCEPT
                  !.left = Unlink({"weasyprint.pdf"}, "weasyprint.pdf"),
                  !.document = Sections, !.sent = "weasyprint.pdf"]]
        ELSE IF g.raised
        THEN [reply |-> BothFailed,
              export |-> [fallen EXCEPT
                  !.fallback = "raises",
                  !.created = {"weasyprint.pdf"} \cup g.created,
                  !.left = Unlink({"weasyprint.pdf"} \cup g.left,
                                  "weasyprint.pdf")]]
        ELSE [reply |-> File(records, hours),
              export |-> [fallen EXCEPT
                  !.fallback = "ok",
                  !.created = {"weasyprint.pdf"} \cup g.created,
                  !.left = Unlink({"weasyprint.pdf"} \cup g.left,
                                  "reportlab.pdf"),
                  !.document = g.document, !.sent = "reportlab.pdf"]]

\* What export_excel or export_pdf may do with request r, as a response and
\* what the export did: a 400, a 500 when the query raises, a 404 when it
\* returns nothing, else the file or a 500.
ExportsWithoutEmptyCheck(rows, now, r) ==
    LET hours == ArgsGetHours(r.hours)
        checked == ValidateData(r.lat, r.lon, hours)
        excel == r.endpoint = "/export/excel"
    IN  IF checked # "ok"
        THEN {[reply |-> Error(400, checked), export |-> NoExport]}
        ELSE {[reply |-> IF excel THEN ExcelFailure ELSE PdfFailure,
               export |-> NoExport]}
             \cup UNION {IF excel
                         THEN {ExcelFile(records, hours, o) :
                                  o \in ExcelOutcomes}
                         ELSE {PdfFile(records, hours, o) :
                                  o \in PdfOutcomes} :
                            records \in Selected(rows, now, r)}

Exports(rows, now, r) ==
    LET hours == ArgsGetHours(r.hours)
        checked == ValidateData(r.lat, r.lon, hours)
        excel == r.endpoint = "/export/excel"
    IN  IF checked # "ok"
        THEN {[reply |-> Error(400, checked), export |-> NoExport]}
        ELSE {[reply |-> IF excel THEN ExcelFailure ELSE PdfFailure,
               export |-> NoExport]}
             \cup UNION {IF records = <<>>
                         THEN {[reply |-> Error(404, "No data found"),
                                export |-> [NoExport EXCEPT !.found = 0]]}
                         ELSE IF excel
                         THEN {ExcelFile(records, hours, o) :
                                  o \in ExcelOutcomes}
                         ELSE {PdfFile(records, hours, o) :
                                  o \in PdfOutcomes} :
                            records \in Selected(rows, now, r)}

\* The responses export_excel or export_pdf may give to request r.
ExportReplies(rows, now, r) == {x.reply : x \in Exports(rows, now, r)}

\* health_check: the count of the records, or the 500 when the count
\* raises; its bodies carry status, service, timestamp and database or
\* error.
HealthReplies(rows) ==
    {[NoReply EXCEPT !.status = 200, !.records_count = Cardinality(rows),
                     !.keys = {"status", "service", "timestamp", "database"}],
     [NoReply EXCEPT !.status = 500, !.error = "str(e)",
                     !.keys = {"status", "service", "timestamp", "error"}]}

\* Worker p is free to take a request.
Free(p) == p \in env.workers /\ Idle(p) /\ handler[p] = "none"

\* A handler that only reads answers request r with reply a.
Answer(p, r, a) ==
    /\ request' = [request EXCEPT ![p] = r]
    /\ reply' = [reply EXCEPT ![p] = a]
    /\ handler' = [handler EXCEPT ![p] = "responded"]
    /\ UNCHANGED <<storeVars, fetched, fetchVars, queryVars, export>>

\* An export answers request r with the response of x, having done what x
\* says.
Send(p, r, x) ==
    /\ request' = [request EXCEPT ![p] = r]
    /\ reply' = [reply EXCEPT ![p] = x.reply]
    /\ export' = [export EXCEPT ![p] = x.export]
    /\ handler' = [handler EXCEPT ![p] = "responded"]
    /\ UNCHANGED <<storeVars, fetched, fetchVars, queryVars>>

HealthCheck(p) ==
    /\ Free(p)
    /\ \E a \in HealthReplies(View(p)) :
          Answer(p, [NoRequest EXCEPT !.endpoint = "/health"], a)

GetWeatherData(p) ==
    /\ Free(p)
    /\ \E r \in DataRequests("/weather-data") :
          \E a \in GetWeatherDataReplies(View(p), clock, r) : Answer(p, r, a)

ExportExcel(p) ==
    /\ Free(p)
    /\ \E r \in DataRequests("/export/excel") :
          \E x \in Exports(View(p), clock, r) : Send(p, r, x)

ExportPdf(p) ==
    /\ Free(p)
    /\ \E r \in DataRequests("/export/pdf") :
          \E x \in Exports(View(p), clock, r) : Send(p, r, x)

\* The response is sent and the application context of the request ends:
\* Flask-SQLAlchemy removes the session, which rolls back what was not
\* committed.
Respond(p) ==
    /\ handler[p] = "responded"
    /\ Idle(p)
    /\ request' = [request EXCEPT ![p] = NoRequest]
    /\ reply' = [reply EXCEPT ![p] = NoReply]
    /\ export' = [export EXCEPT ![p] = NoExport]
    /\ handler' = [handler EXCEPT ![p] = "none"]
    /\ fetched' = [fetched EXCEPT ![p] = NotFetched]
    /\ params' = [params EXCEPT ![p] = NoParams]
    /\ got' = [got EXCEPT ![p] = NoResponse]
    /\ outbound' = [outbound EXCEPT ![p] = 0]
    /\ session' = [session EXCEPT ![p] = {}]
    /\ UNCHANGED <<env, db, nextId, clock, pc, call, i, nulls,
                   weather_records, result, returned, calls, dbAtCall,
                   written, prevOk, queryVars>>

\* The service used directly (as test_api.py does): no fetch is under way.
Next ==
    \/ \E p \in Workers : Begin(p) /\ UNCHANGED aside
    \/ \E p \in Workers : Step(p) /\ UNCHANGED aside
    \/ \E p \in Workers : Commit(p) /\ UNCHANGED aside
    \/ \E p \in Workers : CommitFails(p) /\ UNCHANGED aside
    \/ \E p \in Workers : Return(p) /\ UNCHANGED aside
    \/ \E p \in Workers : Teardown(p) /\ UNCHANGED aside

InitWith(e, rows) ==
    /\ env = [workers |-> e.workers, budget |-> e.budget, plan |-> e.plan,
              store0 |-> rows]
    /\ db = rows
    /\ nextId = Cardinality(rows) + 1
    /\ clock = 0
    /\ session = [p \in Workers |-> {}]
    /\ pc = [p \in Workers |-> "idle"]
    /\ call = [p \in Workers |-> NoArguments]
    /\ i = [p \in Workers |-> 1]
    /\ nulls = [p \in Workers |-> FALSE]
    /\ weather_records = [p \in Workers |-> <<>>]
    /\ result = [p \in Workers |-> "none"]
    /\ returned = [p \in Workers |-> <<>>]
    /\ calls = [p \in Workers |-> 0]
    /\ dbAtCall = [p \in Workers |-> {}]
    /\ written = [p \in Workers |-> {}]
    /\ prevOk = [p \in Workers |-> {}]
    /\ fetched = [p \in Workers |-> NotFetched]
    /\ params = [p \in Workers |-> NoParams]
    /\ outbound = [p \in Workers |-> 0]
    /\ got = [p \in Workers |-> NoResponse]
    /\ query = [p \in Workers |-> NoQuery]
    /\ weather_data = [p \in Workers |-> <<>>]
    /\ request = [p \in Workers |-> NoRequest]
    /\ handler = [p \in Workers |-> "none"]
    /\ reply = [p \in Workers |-> NoReply]
    /\ export = [p \in Workers |-> NoExport]

\* One worker making any calls one after another in one session.
Init ==
    InitWith([workers |-> {1}, budget |-> MaxCalls,
              plan |-> [p \in Workers |-> NoCall]], {})

Spec == Init /\ [][Next]_vars

\* A store an earlier ingest of hour 0 at <<47, 8>> has left.
InitStores == {{}, {WeatherData(1, 0, 47, 8, 12, 55, 0)}}

\* Series whose three arrays are equally long.
AlignedData(n, times, temps, hums) ==
    {d \in HourlyData(n, times, temps, hums) :
        /\ Len(d.temperature_2m) = Len(d.time)
        /\ Len(d.relative_humidity_2m) = Len(d.time)}

\* One worker making any calls one after another in one session, on a
\* store that may hold a record.
InitStored ==
    \E rows \in InitStores :
        InitWith([workers |-> {1}, budget |-> MaxCalls,
                  plan |-> [p \in Workers |-> NoCall]], rows)

SpecStored == InitStored /\ [][Next]_vars

PlannedCalls ==
    Calls(AlignedData(MaxLen, TimeStrings, Temperatures, Humidities))

\* One worker repeating one call.
InitPlanned ==
    \E c \in PlannedCalls, rows \in InitStores :
        InitWith([workers |-> {1}, budget |-> MaxCalls,
                  plan |-> [p \in Workers |-> c]], rows)

SpecPlanned == InitPlanned /\ [][Next]_vars

ConcurrentCalls ==
    Calls(AlignedData(MaxConcLen, {"2024-01-01T00:00", "2024-01-01T01:00"},
                      {11, 12}, {55}))

\* Two workers (two threads, each with the session of its own application
\* context), each making one call, in any interleaving.
InitConcurrent ==
    \E c1 \in ConcurrentCalls, c2 \in ConcurrentCalls, rows \in InitStores :
        InitWith([workers |-> {1, 2}, budget |-> 1,
                  plan |-> [p \in Workers |-> IF p = 1 THEN c1 ELSE c2]],
                 rows)

NextConcurrent ==
    \/ \E p \in Workers : Begin(p) /\ UNCHANGED aside
    \/ \E p \in Workers : Step(p) /\ UNCHANGED aside
    \/ \E p \in Workers : Commit(p) /\ UNCHANGED aside
    \/ \E p \in Workers : CommitFails(p) /\ UNCHANGED aside
    \/ \E p \in Workers : Return(p) /\ UNCHANGED aside

SpecConcurrent == InitConcurrent /\ [][NextConcurrent]_vars

\* One worker fetching again and again.
NextFetch ==
    \/ \E p \in Workers : Fetch(p) /\ UNCHANGED <<queryVars, httpVars>>
    \/ \E p \in Workers : Discard(p) /\ UNCHANGED <<queryVars, httpVars>>

\* Stores for the queries: empty, one record, records of two locations and
\* two hours whose ids do not follow their timestamps, and the two records
\* of one triple that two concurrent ingests leave.
QueryStores ==
    {{},
     {WeatherData(1, 0, 47, 8, 12, 55, 0)},
     {WeatherData(1, 1, 47, 8, 11, 55, 0), WeatherData(2, 0, 47, 8, 12, 55, 0),
      WeatherData(3, 0, 48, 8, 11, 55, 0)},
     {WeatherData(1, 0, 47, 8, 11, 55, 0), WeatherData(2, 0, 47, 8, 12, 55, 0)}}

QueryCalls ==
    Calls(AlignedData(MaxLen, {"2024-01-01T00:00", "2024-01-01T01:00", "n/a"},
                      {None, 11, 12}, {55}))

\* One worker making one reconcile call and queries, before and after it.
InitQuery ==
    \E c \in QueryCalls, rows \in QueryStores :
        InitWith([workers |-> {1}, budget |-> 1,
                  plan |-> [p \in Workers |-> c]], rows)

NextQuery ==
    \/ \E p \in Workers : Begin(p) /\ query[p] = NoQuery /\ UNCHANGED aside
    \/ \E p \in Workers : Step(p) /\ UNCHANGED aside
    \/ \E p \in Workers : Commit(p) /\ UNCHANGED aside
    \/ \E p \in Workers : CommitFails(p) /\ UNCHANGED aside
    \/ \E p \in Workers : Return(p) /\ UNCHANGED aside
    \/ \E p \in Workers : Teardown(p) /\ query[p] = NoQuery /\ UNCHANGED aside
    \/ \E p \in Workers : Query(p) /\ UNCHANGED <<fetchVars, httpVars>>
    \/ \E p \in Workers : QueryDone(p) /\ UNCHANGED <<fetchVars, httpVars>>

SpecQuery == InitQuery /\ [][NextQuery]_vars

\* One worker of the application answering requests one after another; at
\* most one of them stores a series.
InitApi ==
    \E rows \in InitStores :
        InitWith([workers |-> {1}, budget |-> 1,
                  plan |-> [p \in Workers |-> NoCall]], rows)

NextApi ==
    \/ \E p \in Workers : GetWeatherReport(p)
    \/ \E p \in Workers : ReportFetch(p)
    \/ \E p \in Workers : ReportStore(p)
    \/ \E p \in Workers : Step(p) /\ UNCHANGED aside
    \/ \E p \in Workers : Commit(p) /\ UNCHANGED aside
    \/ \E p \in Workers : CommitFails(p) /\ UNCHANGED aside
    \/ \E p \in Workers : ReportStored(p)
    \/ \E p \in Workers : HandlerReturn(p)
    \/ \E p \in Workers : HealthCheck(p)
    \/ \E p \in Workers : GetWeatherData(p)
    \/ \E p \in Workers : ExportExcel(p)
    \/ \E p \in Workers : ExportPdf(p)
    \/ \E p \in Workers : Respond(p)

SpecApi == InitApi /\ [][NextApi]_vars

\* Series of up to SampleSize + 1 hours and more.
SampleCalls ==
    Calls(AlignedData(MaxLen + 4, {"2024-01-01T00:00", "2024-01-01T01:00"},
                      {11}, {55}))

\* One worker answering one /weather-report request whose fetch gets a
\* planned series.
InitReport ==
    \E c \in SampleCalls, rows \in InitStores :
        InitWith([workers |-> {1}, budget |-> 1,
                  plan |-> [p \in Workers |-> c]], rows)

NextReport ==
    \/ \E p \in Workers : GetWeatherReport(p)
    \/ \E p \in Workers : ReportFetch(p)
    \/ \E p \in Workers : ReportStore(p)
    \/ \E p \in Workers : Step(p) /\ UNCHANGED aside
    \/ \E p \in Workers : Commit(p) /\ UNCHANGED aside
    \/ \E p \in Workers : CommitFails(p) /\ UNCHANGED aside
    \/ \E p \in Workers : ReportStored(p)
    \/ \E p \in Workers : HandlerReturn(p)
    \/ \E p \in Workers : Respond(p)

SpecReport == InitReport /\ [][NextReport]_vars

SpecFetch == Init /\ [][NextFetch]_vars

\* ------------------------------------------------------------- claims
Triple(r) == <<r.timestamp, r.latitude, r.longitude>>

Unique(rows) == \A r, q \in rows : Triple(r) = Triple(q) => r = q

Succeeded(p) == pc[p] = "done" /\ result[p] = "ok"

Failed(p) == pc[p] = "done" /\ result[p] # "ok"

\* The rows the call before has committed, if it succeeded.
prevOkRows(p) == UNION prevOk[p]

\* C1: after any sequence of reconcile calls made one after another, the
\* store holds at most one record per (timestamp, latitude, longitude), in
\* the committed rows and in what the worker's next query reads.
C1_OneRecordPerTriple ==
    /\ Unique(db)
    /\ \A p \in env.workers : Unique(View(p))

\* A call has found and updated a record of an earlier call while the store
\* holds a second record.
C1_Witness ==
    /\ Succeeded(1)
    /\ Cardinality(db) >= 2
    /\ \E k \in 1..Len(weather_records[1]) :
          weather_records[1][k] \in Ids(dbAtCall[1])

\* C2: a reconcile call that fails leaves the persisted records as they
\* were, and none of its inserts or updates stays visible to a later query
\* of the session (or is left for a later commit to make durable).
C2_FailedCallLeavesNothing ==
    \A p \in env.workers :
        Failed(p) => View(p) = dbAtCall[p]

\* C3: a second reconcile with the same series and coordinates, made right
\* after a successful first one, creates no record and leaves the store
\* with the same records and values.
C3_Idempotent ==
    \A p \in env.workers :
        (Succeeded(p) /\ prevOk[p] # {}) => db \in prevOk[p]

\* The repeated call has touched two records.
C3_Witness ==
    /\ Succeeded(1)
    /\ prevOk[1] # {}
    /\ Cardinality(Ids(db) \ Ids(env.store0)) >= 2
    /\ Len(returned[1]) >= 2

\* C4: when a successful ingest carries, for a triple an earlier ingest has
\* stored, a different temperature, the store then holds exactly one record
\* of that triple, with the temperature of the later ingest.
C4_SecondIngestWins ==
    \A p \in env.workers :
        Succeeded(p) =>
            \A w \in written[p] :
                \A r0 \in FilterBy(dbAtCall[p], w.timestamp, call[p].latitude,
                                    call[p].longitude) :
                    r0.temperature_2m # w.temperature_2m =>
                        LET now == FilterBy(db, w.timestamp, call[p].latitude,
                                            call[p].longitude)
                        IN  /\ Cardinality(now) = 1
                            /\ \A r \in now :
                                  r.temperature_2m = w.temperature_2m

\* The second ingest has changed the temperature of a committed record.
C4_Witness ==
    /\ Succeeded(1)
    /\ \E w \in written[1] :
          \E r0 \in FilterBy(dbAtCall[1] \cap prevOkRows(1), w.timestamp,
                              call[1].latitude, call[1].longitude) :
              /\ r0.temperature_2m # w.temperature_2m
              /\ \E r \in db : r.id = r0.id /\ r.temperature_2m = w.temperature_2m

\* Rows r and q are one record: same id, same triple, same created_at.
SameRecord(r, q) ==
    /\ q.id = r.id
    /\ Triple(q) = Triple(r)
    /\ q.created_at = r.created_at

AllRows == db \cup UNION {session[p] : p \in env.workers}

\* C5: a record, once created, keeps its id and created_at (and its triple)
\* whatever reconcile calls follow: a committed record stays in the store,
\* and a step changes nothing but the temperature and humidity of a record.
C5_IdentityKept ==
    [][/\ \A r \in db : \E q \in db' : SameRecord(r, q)
       /\ \A r \in AllRows : \A q \in AllRows' :
             q.id = r.id => SameRecord(r, q)]_vars

\* A record created at an earlier time has been updated and committed.
C5_Witness ==
    /\ Succeeded(1)
    /\ \E r0 \in dbAtCall[1] : \E r \in db :
          /\ r.id = r0.id
          /\ r.temperature_2m # r0.temperature_2m
          /\ r.created_at < clock

NoNullStored(rows) ==
    \A r \in rows : /\ r.temperature_2m \notin {None, Missing}
                    /\ r.relative_humidity_2m \notin {None, Missing}

\* Worker p goes through one iteration of its loop.
Iterates(p) ==
    /\ pc[p] = "loop"
    /\ i[p] <= call[p].n
    /\ i'[p] # i[p] \/ pc'[p] # pc[p]

\* C6: an iteration that reads a null temperature or humidity creates no
\* record and changes no stored record, and no stored record ever holds a
\* null temperature or humidity.
C6_NullsSkipped ==
    /\ [](NoNullStored(AllRows))
    /\ [][\A p \in env.workers :
             (Iterates(p) /\ nulls'[p]) =>
                 /\ session'[p] = session[p]
                 /\ db' = db
                 /\ weather_records'[p] = weather_records[p]]_vars

\* A null was read for a call whose location already has a stored record;
\* the call goes on.
C6_Witness ==
    /\ pc[1] = "loop"
    /\ nulls[1]
    /\ i[1] = 2
    /\ \E r \in db : r.latitude = call[1].latitude

\* The indices of the planned series whose values are both non-null.
StoredIndices(d) ==
    LET Stored(k) == /\ d.temperature_2m[k] # None
                     /\ d.relative_humidity_2m[k] # None
    IN  SelectSeq([k \in 1..Len(d.time) |-> k], Stored)

Values(r) ==
    [timestamp |-> r.timestamp, latitude |-> r.latitude,
     longitude |-> r.longitude, temperature_2m |-> r.temperature_2m,
     relative_humidity_2m |-> r.relative_humidity_2m]

Contents(rows) == {Values(r) : r \in rows}

\* The loop of process_and_store_weather_data from index k on, run alone on
\* the contents of a store.
RECURSIVE Reconciled(_, _, _)
Reconciled(contents, c, k) ==
    IF k > Len(c.api_data.time) THEN contents
    ELSE LET it == Item(c.api_data, k)
             timestamp == ParseTimestamp(it.timestamp_str).value
             found == FilterBy(contents, timestamp, c.latitude, c.longitude)
             new == [timestamp |-> timestamp, latitude |-> c.latitude,
                     longitude |-> c.longitude,
                     temperature_2m |-> it.temperature,
                     relative_humidity_2m |-> it.humidity]
         IN  IF NullCheck(it) = "skip"
             THEN Reconciled(contents, c, k + 1)
             ELSE IF found = {}
             THEN Reconciled(contents \cup {new}, c, k + 1)
             ELSE Reconciled((contents \ {CHOOSE x \in found : TRUE})
                                \cup {new}, c, k + 1)

\* The triples a call writes.
Touched(c) ==
    {<<ParseTimestamp(c.api_data.time[k]).value, c.latitude, c.longitude>> :
        k \in {j \in 1..Len(c.api_data.time) :
                  NullCheck(Item(c.api_data, j)) = "store"}}

BothDone == \A p \in {1, 2} : pc[p] = "done"

\* C8: however two concurrent reconcile calls for one triple interleave, the
\* store ends with exactly one record of that triple, holding the values of
\* one of the two calls.
C8_OneRecordLastWriteWins ==
    (BothDone /\ Succeeded(1) /\ Succeeded(2)
        /\ call[1].latitude = call[2].latitude
        /\ call[1].longitude = call[2].longitude) =>
        \A w1 \in written[1], w2 \in written[2] :
            w1.timestamp = w2.timestamp =>
                LET now == FilterBy(db, w1.timestamp, call[1].latitude,
                                    call[1].longitude)
                IN  /\ Cardinality(now) = 1
                    /\ \A r \in now :
                          \/ /\ r.temperature_2m = w1.temperature_2m
                             /\ r.relative_humidity_2m = w1.relative_humidity_2m
                          \/ /\ r.temperature_2m = w2.temperature_2m
                             /\ r.relative_humidity_2m = w2.relative_humidity_2m

\* The store after call p alone, when the call has had the outcome it had.
After(p, contents) ==
    IF result[p] = "ok" THEN Reconciled(contents, env.plan[p], 1)
    ELSE contents

\* C9: two concurrent reconcile calls that write disjoint triples leave,
\* however they interleave, the store that the two calls made one after the
\* other leave, in either order.
C9_DisjointCallsIndependent ==
    (BothDone /\ Touched(env.plan[1]) \cap Touched(env.plan[2]) = {}) =>
        /\ Contents(db) = After(2, After(1, Contents(env.store0)))
        /\ Contents(db) = After(1, After(2, Contents(env.store0)))

\* Both calls have committed, one an insert and one an update of the record
\* the store began with.
C9_Witness ==
    /\ BothDone /\ Succeeded(1) /\ Succeeded(2)
    /\ Touched(env.plan[1]) \cap Touched(env.plan[2]) = {}
    /\ \E r \in db : r.id \in Ids(env.store0) /\ r \notin env.store0
    /\ Cardinality(db) >= 2

\* C10: fetch fails, or returns a series whose time, temperature_2m and
\* relative_humidity_2m arrays are equally long.
C10_EqualLengths ==
    \A p \in env.workers :
        fetched[p].status = "ok" =>
            /\ Len(fetched[p].data.temperature_2m) = Len(fetched[p].data.time)
            /\ Len(fetched[p].data.relative_humidity_2m) =
                  Len(fetched[p].data.time)

\* The response of the last fetch of p holds 'hourly' and the three fields.
Complete(p) == got[p].has_hourly /\ Fields \subseteq got[p].fields

\* C11: a fetch call issues exactly one outbound request; it fails with the
\* fetch error when the request fails, with the invalid-response error when
\* the response lacks 'hourly' or one of time, temperature_2m and
\* relative_humidity_2m, and returns data (the response's) only when all of
\* them are present.
C11_OneRequestAndItsErrors ==
    \A p \in env.workers :
        /\ fetched[p] = NotFetched => outbound[p] = 0
        /\ fetched[p] # NotFetched =>
              /\ outbound[p] = 1
              /\ got[p].transport # "ok" =>
                    fetched[p].status = "RequestException"
              /\ (got[p].transport = "ok" /\ ~Complete(p)) =>
                    fetched[p].status = "ValueError"
              /\ fetched[p].status = "ok" =>
                    /\ got[p].transport = "ok"
                    /\ Complete(p)
                    /\ fetched[p].data = got[p].hourly
              /\ fetched[p].status # "ok" => fetched[p].data = NoData

\* A fetch has failed on a response that holds 'hourly' with the time and
\* temperature arrays and no humidity array.
C11_Witness ==
    /\ fetched[1].status = "ValueError"
    /\ outbound[1] = 1
    /\ got[1].transport = "ok"
    /\ got[1].has_hourly
    /\ got[1].fields = {"time", "temperature_2m"}

\* C12: for days >= 1 the date range a fetch requests ends on the day before
\* today and covers exactly `days` calendar days, both ends included.
C12_DateRange ==
    \A p \in env.workers :
        (fetched[p] # NotFetched /\ params[p].days >= 1) =>
            /\ params[p].end_date = params[p].today - 1
            /\ params[p].end_date - params[p].start_date = params[p].days - 1
            /\ params[p].start_date <= params[p].end_date
            /\ Cardinality(params[p].start_date..params[p].end_date) =
                  params[p].days

\* A fetch for the most days, on the second of January.
C12_Witness ==
    /\ fetched[1] # NotFetched
    /\ params[1].days = MaxDays
    /\ params[1].today = 738887
    /\ params[1].start_date < params[1].end_date

Answered(p) == query[p] # NoQuery

\* C13: whatever the store holds, the list a query (recent or byLocation)
\* returns is sorted by timestamp, non-decreasing.
C13_SortedByTimestamp ==
    \A p \in env.workers :
        Answered(p) =>
            \A j, k \in 1..Len(weather_data[p]) :
                j < k =>
                    weather_data[p][j].timestamp <= weather_data[p][k].timestamp

\* A list of three records and two hours, whose first record was not the
\* first created.
C13_Witness ==
    /\ Answered(1)
    /\ Len(weather_data[1]) >= 3
    /\ weather_data[1][1].timestamp < weather_data[1][3].timestamp
    /\ weather_data[1][1].id > weather_data[1][2].id

\* The records of a list.
Range(s) == {s[k] : k \in 1..Len(s)}

\* C14: recent(hoursBack) returns exactly the stored records, of any
\* location, whose timestamp is at least now - hoursBack; byLocation returns
\* exactly those of them whose latitude and longitude equal the ones given.
\* Each such record is returned once and no other record is.
C14_ExactlyTheFiltered ==
    \A p \in env.workers :
        Answered(p) =>
            LET recent == {r \in View(p) :
                             r.timestamp >= clock - query[p].hours}
                wanted == IF query[p].kind = "recent" THEN recent
                          ELSE {r \in recent :
                                   /\ r.latitude = query[p].latitude
                                   /\ r.longitude = query[p].longitude}
            IN  /\ Range(weather_data[p]) = wanted
                /\ Len(weather_data[p]) = Cardinality(wanted)

\* A byLocation query has returned a record while the store holds a record
\* of the location that is too old and a recent record of another location,
\* and the returned record lies on the cutoff.
C14_Witness ==
    /\ Answered(1)
    /\ query[1].kind = "byLocation"
    /\ Len(weather_data[1]) = 1
    /\ weather_data[1][1].timestamp = clock - query[1].hours
    /\ \E r \in db : /\ r.latitude = query[1].latitude
                      /\ r.timestamp < clock - query[1].hours
    /\ \E r \in db : /\ r.latitude # query[1].latitude
                      /\ r.timestamp >= clock - query[1].hours

\* The values the planned call stores last for each timestamp.
LastWritten(c) ==
    LET d == c.api_data
        idx == StoredIndices(d)
        Hour(j) == ParseTimestamp(d.time[idx[j]]).value
    IN  {[timestamp |-> Hour(j), temperature_2m |-> d.temperature_2m[idx[j]],
          relative_humidity_2m |-> d.relative_humidity_2m[idx[j]]] :
            j \in {x \in 1..Len(idx) :
                      \A y \in 1..Len(idx) : y > x => Hour(y) # Hour(x)}}

\* C15: after a successful reconcile, byLocation with the coordinates of the
\* call and an hoursBack that reaches the record's timestamp returns, for
\* each timestamp the call has written, a record with the temperature and
\* humidity written.
C15_RoundTrip ==
    \A p \in env.workers :
        (/\ Answered(p)
         /\ query[p].kind = "byLocation"
         /\ prevOk[p] # {}
         /\ query[p].latitude = env.plan[p].latitude
         /\ query[p].longitude = env.plan[p].longitude) =>
            \A w \in LastWritten(env.plan[p]) :
                w.timestamp >= clock - query[p].hours =>
                    \E k \in 1..Len(weather_data[p]) :
                        /\ weather_data[p][k].timestamp = w.timestamp
                        /\ weather_data[p][k].temperature_2m = w.temperature_2m
                        /\ weather_data[p][k].relative_humidity_2m =
                              w.relative_humidity_2m

\* The call has updated a stored record of hour 0 to another temperature and
\* created a record, and byLocation returns both.
C15_Witness ==
    /\ Answered(1)
    /\ query[1].kind = "byLocation"
    /\ prevOk[1] # {}
    /\ query[1].latitude = env.plan[1].latitude
    /\ Cardinality(LastWritten(env.plan[1])) = 2
    /\ Len(weather_data[1]) = 2
    /\ \E r \in env.store0 :
          /\ r.id = weather_data[1][1].id
          /\ r.temperature_2m # weather_data[1][1].temperature_2m

\* Request r carries a lat or a lon outside its range.
OutOfRange(r) ==
    \/ r.lat # None /\ (r.lat < -90 \/ r.lat > 90)
    \/ r.lon # None /\ (r.lon < -180 \/ r.lon > 180)

\* C16: a request to /weather-report, /weather-data, /export/excel or
\* /export/pdf with a lat outside [-90, 90] or a lon outside [-180, 180] is
\* answered with 400, whichever other parameters it carries.
C16_OutOfRangeRejected ==
    \A p \in env.workers :
        (request[p] # NoRequest /\ OutOfRange(request[p])) =>
            reply[p].status = 400

DataEndpoints == {"/weather-data", "/export/excel", "/export/pdf"}

\* The responses the handler of r's endpoint may give.
Replies(rows, now, r) ==
    CASE r.endpoint = "/weather-data" -> GetWeatherDataReplies(rows, now, r)
      [] r.endpoint = "/export/excel" -> ExportReplies(rows, now, r)
      [] r.endpoint = "/export/pdf" -> ExportReplies(rows, now, r)

\* C17: /weather-data and the two exports answer 400 to an hours outside
\* [1, 168], do not reject an hours inside it for being what it is, and
\* answer a request without hours as they answer it with hours=48.
C17_HoursValidated ==
    \A p \in env.workers :
        request[p].endpoint \in DataEndpoints =>
            LET hours == request[p].hours
            IN  /\ (hours # None /\ (hours < 1 \/ hours > 168)) =>
                      reply[p].status = 400
                /\ (hours # None /\ hours >= 1 /\ hours <= 168) =>
                      reply[p].error # "Invalid hours parameter"
                /\ hours = None =>
                      /\ reply[p].error # "Invalid hours parameter"
                      /\ reply[p] \in Replies(View(p), clock,
                                               [request[p] EXCEPT !.hours = 48])

\* An export with hours=168 has sent its file.
C17_Witness ==
    /\ request[1].endpoint = "/export/excel"
    /\ request[1].hours = 168
    /\ reply[1].status = 200
    /\ reply[1].records_count >= 1

\* Request r lacks lat or lon or carries one outside its range.
Invalid(r) == r.lat = None \/ r.lon = None \/ OutOfRange(r)

Reporting(r) == r.endpoint = "/weather-report"

\* C18: /weather-report answers 400 to a request whose lat or lon is missing
\* or out of range, and from the arrival of such a request to its response
\* no fetch is issued, reconcile is not called and nothing in the store or
\* the session changes.
C18_ValidationFirst ==
    /\ [](\A p \in env.workers :
            (Reporting(request[p]) /\ Invalid(request[p])) =>
                /\ reply[p].status = 400
                /\ outbound[p] = 0
                /\ fetched[p] = NotFetched
                /\ Idle(p)
                /\ session[p] = {})
    /\ [][\A p \in env.workers :
             (Reporting(request'[p]) /\ Invalid(request'[p])) =>
                 /\ db' = db
                 /\ session' = session
                 /\ nextId' = nextId
                 /\ calls' = calls
                 /\ outbound' = outbound]_vars

\* A request with a good lat and a lon of 181 got its 400 from a store that
\* an earlier request has filled.
C18_Witness ==
    /\ Reporting(request[1])
    /\ request[1].lat = 47
    /\ request[1].lon = 181
    /\ reply[1].status = 400
    /\ calls[1] = 1
    /\ db # env.store0

\* C19: on /weather-report a fetch that fails yields a 500 with the error
\* 'API fetch failed', after which reconcile has not been called and the
\* store is as it was; a reconcile that fails yields a 500 with the error
\* 'Database storage failed', which no failed fetch yields.
C19_DistinctFailures ==
    \A p \in env.workers :
        (Reporting(request[p]) /\ handler[p] = "responded") =>
            /\ fetched[p].status \in {"RequestException", "ValueError"} =>
                  /\ reply[p].status = 500
                  /\ reply[p].error = "API fetch failed"
                  /\ Idle(p)
                  /\ calls[p] = 0
                  /\ db = env.store0
                  /\ session[p] = {}
            /\ (pc[p] = "done" /\ result[p] # "ok") =>
                  /\ reply[p].status = 500
                  /\ reply[p].error = "Database storage failed"
            /\ reply[p].error = "Database storage failed" =>
                  fetched[p].status = "ok"

\* The fetch has returned arrays of unequal length and reconcile has raised
\* on them after an insert.
C19_Witness ==
    /\ Reporting(request[1])
    /\ handler[1] = "responded"
    /\ pc[1] = "done"
    /\ result[1] = "IndexError"
    /\ session[1] # {}
    /\ reply[1].error = "Database storage failed"

\* C20: the 200 response of /weather-report gives as records_count the
\* number of records reconcile has returned, as sample_data the first five
\* of them (all when they are fewer) in order, and as data_range the
\* timestamps of the first and the last of them, both null when there is
\* none.
C20_ReportBody ==
    \A p \in env.workers :
        (handler[p] = "responded" /\ pc[p] = "done" /\ reply[p].status = 200)
        =>  LET n == Len(returned[p])
                sample == reply[p].data
            IN  /\ reply[p].records_count = n
                /\ Len(sample) = IF n < 5 THEN n ELSE 5
                /\ \A k \in 1..Len(sample) :
                      /\ sample[k].id = returned[p][k].id
                      /\ sample[k].timestamp =
                            Isoformat(returned[p][k].timestamp)
                      /\ sample[k].temperature_2m =
                            returned[p][k].temperature_2m
                      /\ sample[k].relative_humidity_2m =
                            returned[p][k].relative_humidity_2m
                /\ n = 0 => reply[p].start = "null" /\ reply[p].end = "null"
                /\ n > 0 =>
                      /\ reply[p].start = Isoformat(returned[p][1].timestamp)
                      /\ reply[p].end = Isoformat(returned[p][n].timestamp)

\* A report of six records, five of them in the sample, from hour 0 to
\* hour 1.
C20_Witness ==
    /\ handler[1] = "responded"
    /\ reply[1].status = 200
    /\ reply[1].records_count = 6
    /\ Len(reply[1].data) = 5
    /\ reply[1].start = "2024-01-01T00:00:00"
    /\ reply[1].end = "2024-01-01T01:00:00"

Exporting(r) == r.endpoint \in {"/export/excel", "/export/pdf"}

\* The request worker p has answered is an export.
Exported(p) == handler[p] = "responded" /\ Exporting(request[p])

\* C21: an export whose query returns an empty list (its parameters being
\* valid) answers 404 "No data found" and has produced no document: no
\* temporary file was created, no renderer ran, nothing was drawn.  The
\* length the export found is that of a list its query may return.
C21_EmptyListIs404 ==
    \A p \in env.workers :
        Exported(p) =>
            /\ export[p].found # None =>
                  \E records \in Selected(View(p), clock, request[p]) :
                      Len(records) = export[p].found
            /\ export[p].found = 0 =>
                  /\ reply[p] = Error(404, "No data found")
                  /\ export[p] = [NoExport EXCEPT !.found = 0]

\* An export has answered 404 on a store that holds a record, the
\* location asked for having none.
C21_Witness ==
    /\ Exported(1)
    /\ db # {}
    /\ request[1].lat = 48
    /\ export[1].found = 0
    /\ reply[1].status = 404
    /\ export[1].created = {}

\* C22: when export_excel or export_pdf has answered (the file sent, a 404,
\* the fallback after a failed primary, both renderers failed, an exception
\* while rendering), none of the temporary files it created is left: not
\* the output file of either renderer, not the chart image.
C22_TemporaryFilesReleased ==
    \A p \in env.workers : Exported(p) => export[p].left = {}

\* The request worker p has answered is /export/pdf with valid parameters,
\* and its query returned a list that is not empty.
PdfOfRecords(p) ==
    /\ Exported(p)
    /\ request[p].endpoint = "/export/pdf"
    /\ export[p].found # None
    /\ export[p].found > 0

\* Both renderers failed: the primary was not there or raised, and the
\* fallback raised.
BothRenderersFailed(p) ==
    /\ export[p].primary \in {"unavailable", "raises"}
    /\ export[p].fallback = "raises"

\* C23 as stated: /export/pdf, with valid parameters and a list that is not
\* empty, answers 500 only when both renderers were tried and both failed.
C23_500OnlyIfBothFailed ==
    \A p \in env.workers :
        (PdfOfRecords(p) /\ reply[p].status = 500) => BothRenderersFailed(p)

\* C23 amended: such a 500 is either that of two failed renderers (the body
\* with `details`), or the 500 of the outermost except for an exception
\* raised before any renderer was tried and before the temporary file
\* (generate_weather_chart raising).
C23_500BothFailedOrBeforeRenderers ==
    \A p \in env.workers :
        (PdfOfRecords(p) /\ reply[p].status = 500) =>
            \/ BothRenderersFailed(p) /\ reply[p] = BothFailed
            \/ /\ export[p].primary = "none"
               /\ export[p].fallback = "none"
               /\ export[p].created = {}
               /\ reply[p] = PdfFailure

\* A 500 after WeasyPrint raised and reportlab raised.
C23_Witness ==
    /\ PdfOfRecords(1)
    /\ reply[1] = BothFailed
    /\ export[1].primary = "raises"
    /\ export[1].fallback = "raises"
    /\ "reportlab.pdf" \in export[1].created

\* The export of worker p has come to the renderers.
Rendering(p) ==
    /\ Exported(p)
    /\ request[p].endpoint = "/export/pdf"
    /\ export[p].primary # "none"

\* C24: the PDF renderers are tried in a fixed order and the first success
\* wins: the fallback is run exactly when the primary was unavailable or
\* failed, never after a primary success (whose file is the one sent), and
\* never before the primary; a fallback that succeeds gives the 200 with
\* its file.
C24_FirstSuccessWins ==
    \A p \in env.workers :
        /\ (Exported(p) /\ export[p].fallback # "none") => Rendering(p)
        /\ Rendering(p) =>
              /\ export[p].fallback # "none"
                    <=> export[p].primary \in {"unavailable", "raises"}
              /\ export[p].primary = "ok" =>
                    /\ export[p].fallback = "none"
                    /\ reply[p].status = 200
                    /\ export[p].sent = "weasyprint.pdf"
              /\ export[p].fallback = "ok" =>
                    /\ reply[p].status = 200
                    /\ reply[p].keys = {}
                    /\ export[p].sent = "reportlab.pdf"

\* WeasyPrint was not there and reportlab's file was sent with a 200.
C24_Witness ==
    /\ Rendering(1)
    /\ export[1].primary = "unavailable"
    /\ export[1].fallback = "ok"
    /\ export[1].sent = "reportlab.pdf"
    /\ reply[1].status = 200

\* C25: in the fallback renderer a chart image that cannot be decoded, or
\* cannot be placed, does not fail the document: reportlab having done the
\* rest, the fallback succeeds and the PDF is sent with header, metadata,
\* statistics and footer, only the chart missing; a chart that can be
\* placed is in the document.
C25_ChartFailureOmitsOnlyChart ==
    \A p \in env.workers :
        (Rendering(p) /\ export[p].reportlab = "ok") =>
            /\ export[p].fallback = "ok"
            /\ reply[p].status = 200
            /\ export[p].image \in {"undecodable", "unplaceable"} =>
                  export[p].document =
                      {"header", "metadata", "statistics", "footer"}
            /\ export[p].image = "ok" =>
                  export[p].document =
                      {"header", "metadata", "chart", "statistics", "footer"}

\* reportlab's PDF was sent without the chart that drawImage could not
\* place.
C25_Witness ==
    /\ Rendering(1)
    /\ export[1].fallback = "ok"
    /\ export[1].image = "unplaceable"
    /\ export[1].document = {"header", "metadata", "statistics", "footer"}
    /\ reply[1].status = 200

\* The endpoints that report errors as {error, message}.
ErrorEndpoints ==
    {"/weather-report", "/weather-data", "/export/excel", "/export/pdf"}

\* C26: every error response (400, 404 or 500) of /weather-report,
\* /weather-data, /export/excel and /export/pdf has a JSON body with the
\* keys error and message, and no others.
C26_ErrorBodyShape ==
    \A p \in env.workers :
        (/\ handler[p] = "responded"
         /\ request[p].endpoint \in ErrorEndpoints
         /\ reply[p].status \in {400, 404, 500})
        => reply[p].keys = {"error", "message"}

\* A response with a body the client can read: a JSON object, or the file
\* of an export.
Structured(p) ==
    /\ reply[p].status \in {200, 400, 404, 500}
    /\ \/ reply[p].keys # {}
       \/ reply[p].status = 200 /\ export[p].sent # "none"

\* What the handler of worker p's request may do next.
Proceed(p) ==
    \/ ReportFetch(p)
    \/ ReportStore(p)
    \/ Step(p) /\ UNCHANGED aside
    \/ Commit(p) /\ UNCHANGED aside
    \/ CommitFails(p) /\ UNCHANGED aside
    \/ ReportStored(p)
    \/ HandlerReturn(p)
    \/ Respond(p)

\* C27: no failure is fatal.  A request to /health, /weather-report,
\* /weather-data, /export/excel or /export/pdf, whatever fails in it, is
\* never stuck before its response, gets one response, which is structured
\* (no exception escapes the handler) and does not change until it is sent;
\* and a worker that has sent a response, of a failure too, takes requests
\* to each endpoint again.
C27_NothingIsFatal ==
    /\ [](\A p \in env.workers :
            /\ handler[p] = "responded" => Structured(p)
            /\ handler[p] # "responded" => reply[p] = NoReply
            /\ handler[p] # "none" => ENABLED Proceed(p)
            /\ handler[p] = "none" =>
                  /\ ENABLED HealthCheck(p)
                  /\ ENABLED GetWeatherReport(p)
                  /\ ENABLED GetWeatherData(p)
                  /\ ENABLED ExportExcel(p)
                  /\ ENABLED ExportPdf(p))
    /\ [][\A p \in env.workers :
             handler[p] = "responded" =>
                 \/ handler'[p] = "responded" /\ reply'[p] = reply[p]
                 \/ handler'[p] = "none" /\ reply'[p] = NoReply]_vars

\* /weather-data is answered 200 after a /weather-report whose reconcile
\* had failed past an insert (the id it used is gone, the store is as it
\* was).
C27_Witness ==
    /\ handler[1] = "responded"
    /\ request[1].endpoint = "/weather-data"
    /\ reply[1].status = 200
    /\ calls[1] = 1
    /\ db = env.store0
    /\ nextId > Cardinality(db) + 1

\* Exactly one of lat and lon is given.
OneCoordinate(r) == (r.lat = None) # (r.lon = None)

\* Request r without its coordinates.
Unlocated(r) == [r EXCEPT !.lat = None, !.lon = None]

C29_DuplicateTimestampInSeries ==
    \A p \in env.workers :
        (Succeeded(p) /\ Planned(p)) =>
            LET d == env.plan[p].api_data
                idx == StoredIndices(d)
                Hour(x) == ParseTimestamp(d.time[idx[x]]).value
            IN  \A a, b \in 1..Len(idx) :
                    (a < b /\ Hour(a) = Hour(b)) =>
                        LET t == Hour(b)
                            now == FilterBy(db, t, call[p].latitude,
                                            call[p].longitude)
                            before == FilterBy(dbAtCall[p], t,
                                               call[p].latitude,
                                               call[p].longitude)
                            last == CHOOSE x \in 1..Len(idx) :
                                       /\ Hour(x) = t
                                       /\ \A y \in 1..Len(idx) :
                                             Hour(y) = t => y <= x
                        IN  /\ weather_records[p][a] = weather_records[p][b]
                            /\ Cardinality(now) = 1
                            /\ Cardinality({r \in now :
                                  r.id \notin Ids(dbAtCall[p])})
                                  = IF before = {} THEN 1 ELSE 0
                            /\ \A r \in now :
                                  /\ r.temperature_2m =
                                        d.temperature_2m[idx[last]]
                                  /\ r.relative_humidity_2m =
                                        d.relative_humidity_2m[idx[last]]

\* A call on an empty store whose series has hour 0 twice, written in two
\* ways, with 11 and then 12 degrees, has created one record, of 12 degrees.
C29_Witness ==
    /\ Succeeded(1)
    /\ Planned(1)
    /\ dbAtCall[1] = {}
    /\ env.plan[1].api_data.time = <<"2024-01-01T00:00", "2024-01-01 00:00">>
    /\ env.plan[1].api_data.temperature_2m = <<11, 12>>
    /\ env.plan[1].api_data.relative_humidity_2m = <<55, 55>>
    /\ Cardinality(db) = 1
    /\ \A r \in db : r.temperature_2m = 12
    /\ weather_records[1][1] = weather_records[1][2]

\* Record r of the store is as it was, or is a record that the call of
\* worker p may write: of the call's location and of a timestamp the call
\* has passed the null check with.
Framed(p, r, q) ==
    /\ q.id = r.id
    /\ q # r =>
          /\ r.latitude = call[p].latitude
          /\ r.longitude = call[p].longitude
          /\ \E w \in written[p] : w.timestamp = r.timestamp

\* C30: a reconcile call leaves unchanged every stored record of another
\* location and every stored record whose timestamp is at no non-null index
\* of its series; it deletes no record, and the number of stored records
\* does not decrease.
C30_OthersUntouched ==
    [][\A p \in env.workers :
          pc[p] = "loop" =>
              /\ \A r \in db : \E q \in db' : Framed(p, r, q)
              /\ Cardinality(db') >= Cardinality(db)]_vars

====
